---- MODULE Spec2Model ----
(***************************************************************************)
(* In-memory store of lib/Store/make-in-memory-store.js: the collections   *)
(* (chats, messages, contacts, labels) and the event handlers bind()       *)
(* registers on the event source.                                          *)
(*                                                                         *)
(* JavaScript strings are sequences of one-character strings, so that      *)
(* concatenation, padding and comparison of sort keys are computed.  An    *)
(* optional field of an object is a set: {} when the field is absent,      *)
(* {v} when it holds v.                                                    *)
(*                                                                         *)
(* Five specifications share the handlers:                                 *)
(*   Spec          chat, history and message events                        *)
(*   SpecContacts  contact events, with the async contacts.update handler  *)
(*                 suspended at its awaits (its runs may overlap)          *)
(*   SpecLabels    labels.edit events                                      *)
(*   SpecKey       the chat key function on pairs of chats                 *)
(*   SpecMisc      label association, connection and presence events, and  *)
(*                 events that name unknown chats or unknown types         *)
(* A handler is one action: it runs to its end, or to its next await.      *)
(***************************************************************************)
EXTENDS Integers, Sequences, FiniteSets, TLC

VARIABLES
    chats,      \* KeyedDB of chats: its array, in iteration order
    messages,   \* property key (string) -> message list (array of messages)
    contacts,   \* contact id (string) -> contact object
    labels,     \* ObjectRepository: label id -> label
    cu,         \* the frames of the (async) contacts.update handler runs
    hasSocket,  \* config.socket is set
    last,       \* the event applied last (history)
    pre,        \* the collections as they were before that event (history)
    err,        \* the exception the last handler run ended with ("" if none)
    emitted,    \* events the store itself emitted through ev during the last event
    nev,        \* number of events applied so far
    probe,      \* inputs and outputs of the chat key function (SpecKey)
    labelAssociations,  \* KeyedDB of label association rows: its array
    state,      \* the connection state: field -> value
    presences,  \* chat id -> participant id -> presence
    liveMessages  \* the messages first delivered by messages.upsert (history)

vars == <<chats, messages, contacts, labels, cu, hasSocket, last, pre, err,
          emitted, nev, probe, labelAssociations, state, presences, liveMessages>>

\* The collections only the label association, connection and presence
\* handlers write.
others == <<labelAssociations, state, presences>>

(***************************************************************************)
(* Bounds of the model.                                                    *)
(***************************************************************************)
MaxEvents == 3
MaxContactEvents == 3
MaxLabelEvents == 2
ExtraLabelIds == 2

(***************************************************************************)
(* Strings.                                                                *)
(***************************************************************************)
S1(ch) == <<ch>>

\* The collation order of the characters the model uses, as
\* String.prototype.localeCompare (ICU) orders them: whitespace, punctuation,
\* digits, letters, the lower-case letter just before the upper-case one.
Collation ==
    <<" ", "[", "]", "@", "0", "1", "2", "3", "4", "5", "6", "7", "8", "9",
      "a", "b", "c", "d", "e", "f", "j", "o", "O", "s", "t">>

\* The weight of a character at a level of the collation: at level 1 the
\* place of its letter, whatever the case; at level 3 its own place, the
\* lower-case letter before the upper-case one.
Rank ==
    [level \in {1, 3} |->
        [ch \in {Collation[i] : i \in 1..Len(Collation)} |->
            CHOOSE i \in 1..Len(Collation) :
                Collation[i] = (IF level = 1 /\ ch = "O" THEN "o" ELSE ch)]]

\* The comparison of two strings by the weights of one level.
RECURSIVE collate(_, _, _)
collate(a, b, level) ==
    IF a = <<>> /\ b = <<>> THEN 0
    ELSE IF a = <<>> THEN -1
    ELSE IF b = <<>> THEN 1
    ELSE IF Rank[level][Head(a)] < Rank[level][Head(b)] THEN -1
    ELSE IF Rank[level][Head(a)] > Rank[level][Head(b)] THEN 1
    ELSE collate(Tail(a), Tail(b), level)

\* a.localeCompare(b): negative, zero or positive.  The letters decide; the
\* case counts only between strings that are otherwise equal.
localeCompare(a, b) ==
    LET letters == collate(a, b, 1)
    IN  IF letters # 0 THEN letters ELSE collate(a, b, 3)

HexDigits ==
    <<"0", "1", "2", "3", "4", "5", "6", "7", "8", "9", "a", "b", "c", "d", "e", "f">>

\* Number.prototype.toString(16) of a non-negative integer.
RECURSIVE toString16(_)
toString16(n) ==
    IF n < 16 THEN S1(HexDigits[n + 1])
    ELSE toString16(n \div 16) \o S1(HexDigits[(n % 16) + 1])

\* String.prototype.padStart(width, ch).
RECURSIVE padStart(_, _, _)
padStart(s, width, ch) ==
    IF Len(s) >= width THEN s ELSE padStart(S1(ch) \o s, width, ch)

TimestampWidth == 8

\* The string a decoded jid (a plain object) turns into when it is used as a
\* property key or concatenated to a string.
ObjectString ==
    <<"[", "o", "b", "j", "e", "c", "t", " ", "O", "b", "j", "e", "c", "t", "]">>

(***************************************************************************)
(* Jids.  A chat id is a JavaScript value: a string, or the object that    *)
(* jidDecode returns.                                                      *)
(***************************************************************************)
StrId(s) == [kind |-> "string", text |-> s]

RECURSIVE IndexOf(_, _, _)
IndexOf(s, ch, from) ==
    IF from > Len(s) THEN 0
    ELSE IF s[from] = ch THEN from
    ELSE IndexOf(s, ch, from + 1)

\* jidDecode(jid): the user and server parts of "user@server".
jidDecode(jid) ==
    LET sep == IndexOf(jid, "@", 1)
    IN  [kind |-> "object",
         user |-> SubSeq(jid, 1, sep - 1),
         server |-> SubSeq(jid, sep + 1, Len(jid)),
         text |-> jid]

\* String(v): what a value becomes as a property key or in a concatenation.
ToStr(v) == IF v.kind = "object" THEN ObjectString ELSE v.text

\* The value a decoded jid is as a chat id (same decoded parts, same value).
ObjId(d) == [kind |-> "object", text |-> d.text]

(***************************************************************************)
(* Chats and the chat sort key.                                            *)
(***************************************************************************)
Chat(id, pinned, archived, ts, unread, name) ==
    [id |-> id, pinned |-> pinned, archived |-> archived,
     conversationTimestamp |-> ts, unreadCount |-> unread, name |-> name]

Val(opt) == CHOOSE v \in opt : TRUE

\* Truthiness of an optional boolean and of an optional number.
TruthyBool(opt) == opt = {TRUE}
TruthyNum(opt) == opt # {} /\ Val(opt) # 0

\* waChatKey(true).key
waChatKey(c) ==
    S1(IF TruthyBool(c.pinned) THEN "1" ELSE "0")
    \o S1(IF TruthyBool(c.archived) THEN "0" ELSE "1")
    \o (IF TruthyNum(c.conversationTimestamp)
        THEN padStart(toString16(Val(c.conversationTimestamp)), TimestampWidth, "0")
        ELSE <<>>)
    \o ToStr(c.id)

\* waChatKey(true).compare
compare(k1, k2) == localeCompare(k2, k1)

\* Object.assign(target, source) on chats: every field the source carries.
AssignChat(target, source) ==
    [f \in DOMAIN target |->
        IF f = "id" THEN source.id
        ELSE IF source[f] = {} THEN target[f] ELSE source[f]]

(***************************************************************************)
(* KeyedDB (package @adiwajshing/keyed-db), the ordered collection of      *)
(* section 4.1 of the specification: an array kept in the order of         *)
(* compare over the keys, and a dictionary from String(id) to the item.    *)
(* The dictionary holds exactly the items of the array, so it is read off  *)
(* the array.  A result is [array, threw]: threw names the exception.      *)
(***************************************************************************)
RemoveAt(arr, i) == SubSeq(arr, 1, i - 1) \o SubSeq(arr, i + 1, Len(arr))
InsertAt(arr, i, v) == SubSeq(arr, 1, i - 1) \o <<v>> \o SubSeq(arr, i, Len(arr))

\* get(id): the index of the item stored under String(id), 0 if none.
KeyedDB_get(arr, id) ==
    IF \E i \in 1..Len(arr) : ToStr(arr[i].id) = ToStr(id)
    THEN CHOOSE i \in 1..Len(arr) : ToStr(arr[i].id) = ToStr(id)
    ELSE 0

\* firstIndex(value): where the value's key is, or belongs, in the array.
KeyedDB_firstIndex(arr, value) ==
    1 + Cardinality({i \in 1..Len(arr) : compare(waChatKey(value), waChatKey(arr[i])) > 0})

KeyedDB_hasKey(arr, value) ==
    LET i == KeyedDB_firstIndex(arr, value)
    IN  i <= Len(arr) /\ waChatKey(arr[i]) = waChatKey(value)

\* _insertSingle(value)
KeyedDB_insertSingle(arr, value) ==
    IF KeyedDB_get(arr, value.id) # 0
    THEN [array |-> arr, threw |-> "duplicate ID"]
    ELSE IF KeyedDB_hasKey(arr, value)
    THEN [array |-> arr, threw |-> "duplicate key"]
    ELSE [array |-> InsertAt(arr, KeyedDB_firstIndex(arr, value), value), threw |-> ""]

\* delete(value): by the value's key.
KeyedDB_delete(arr, value) ==
    IF KeyedDB_hasKey(arr, value) THEN RemoveAt(arr, KeyedDB_firstIndex(arr, value)) ELSE arr

\* deleteById(id, assertPresent)
KeyedDB_deleteById(arr, id, assertPresent) ==
    LET i == KeyedDB_get(arr, id)
    IN  IF i = 0
        THEN [array |-> arr, threw |-> IF assertPresent THEN "Value not found" ELSE ""]
        ELSE [array |-> KeyedDB_delete(arr, arr[i]), threw |-> ""]

\* upsert(value): delete the item of the same id, insert at the key's place.
KeyedDB_upsert(arr, value) ==
    KeyedDB_insertSingle(KeyedDB_deleteById(arr, value.id, FALSE).array, value)

\* insertIfAbsent(value): skipped when the id or the key is present.
KeyedDB_insertIfAbsent(arr, value) ==
    IF KeyedDB_get(arr, value.id) # 0 \/ KeyedDB_hasKey(arr, value)
    THEN [array |-> arr, threw |-> ""]
    ELSE KeyedDB_insertSingle(arr, value)

\* The items of the array.
Items(arr) == {arr[i] : i \in 1..Len(arr)}

\* update(id, mutator): the mutator (a function of the item) is applied to
\* the item in place, and the item is taken out and inserted again when its
\* key has changed.  found is the method's result (falsy when no item was
\* updated).
KeyedDB_update(arr, id, mutator) ==
    LET i == KeyedDB_get(arr, id)
    IN  IF i = 0 \/ arr[i].id # id
        THEN [array |-> arr, threw |-> "", found |-> FALSE]
        ELSE LET value == mutator[arr[i]]
             IN  IF waChatKey(value) = waChatKey(arr[i])
                 THEN [array |-> [arr EXCEPT ![i] = value], threw |-> "", found |-> TRUE]
                 ELSE LET r == KeyedDB_insertSingle(RemoveAt(arr, i), value)
                      IN  [array |-> r.array, threw |-> r.threw, found |-> TRUE]

(***************************************************************************)
(* The ordered dictionary of messages (./make-ordered-dictionary), section *)
(* 4.2 of the specification: one array per chat, keyed by message id.      *)
(***************************************************************************)
Message(remoteJid, id, body) == [remoteJid |-> remoteJid, id |-> id, body |-> body]

\* waMessageID(m) = m.key.id || ''
waMessageID(m) == IF m.id = "" THEN "" ELSE m.id

\* list.upsert(item, mode)
OrderedDictionary_upsert(list, item, mode) ==
    IF \E i \in 1..Len(list) : waMessageID(list[i]) = waMessageID(item)
    THEN [i \in 1..Len(list) |->
            IF waMessageID(list[i]) = waMessageID(item) THEN item ELSE list[i]]
    ELSE IF mode = "append" THEN Append(list, item)
    ELSE <<item>> \o list

\* assertMessageList(jid): the list under property key String(jid), created
\* empty when there is none.
assertMessageList(msgs, key) ==
    IF key \in DOMAIN msgs THEN msgs ELSE msgs @@ (key :> <<>>)

\* The messages of a list, and of all the lists.
ListItems(list) == {list[i] : i \in 1..Len(list)}
AllMessages(msgs) == UNION {ListItems(msgs[k]) : k \in DOMAIN msgs}

\* What names a message: its chat and its id.
MessageRef(m) == [remoteJid |-> m.remoteJid, id |-> m.id]

(***************************************************************************)
(* Contacts: a plain object, contact id -> contact.                        *)
(***************************************************************************)
Contact(id, name, imgUrl) == [id |-> id, name |-> name, imgUrl |-> imgUrl]

\* { ...old, ...new }: a new object with every field either carries.
SpreadContact(old, new) ==
    [f \in DOMAIN new |-> IF f = "id" THEN new.id ELSE IF new[f] = {} THEN old[f] ELSE new[f]]

\* A mutant: the stored contact is replaced by the new one.
RECURSIVE contactsUpsertFromReplace(_, _, _)
contactsUpsertFromReplace(cts, oldContacts, newContacts) ==
    IF newContacts = <<>> THEN [contacts |-> cts, oldContacts |-> oldContacts]
    ELSE contactsUpsertFromReplace(
             [k \in DOMAIN cts \cup {Head(newContacts).id} |->
                 IF k = Head(newContacts).id THEN Head(newContacts) ELSE cts[k]],
             oldContacts \ {Head(newContacts).id},
             Tail(newContacts))

\* contactsUpsert(newContacts): [contacts, oldContacts], oldContacts the ids
\* known before that the batch does not name.
RECURSIVE contactsUpsertFrom(_, _, _)
contactsUpsertFrom(cts, oldContacts, newContacts) ==
    IF newContacts = <<>> THEN [contacts |-> cts, oldContacts |-> oldContacts]
    ELSE LET contact == Head(newContacts)
             merged == IF contact.id \in DOMAIN cts
                       THEN SpreadContact(cts[contact.id], contact)
                       ELSE contact
         IN  contactsUpsertFrom(
                 [k \in DOMAIN cts \cup {contact.id} |->
                     IF k = contact.id THEN merged ELSE cts[k]],
                 oldContacts \ {contact.id},
                 Tail(newContacts))

contactsUpsert(cts, newContacts) == contactsUpsertFrom(cts, DOMAIN cts, newContacts)

(***************************************************************************)
(* The synchronous handlers, as functions of the collections.  A result    *)
(* carries the collections the handler leaves and the exception it threw.  *)
(***************************************************************************)
\* ev.on('chats.upsert'): chats.upsert(...newChats)
RECURSIVE chatsUpsertHandler(_, _)
chatsUpsertHandler(arr, newChats) ==
    IF newChats = <<>> THEN [array |-> arr, threw |-> ""]
    ELSE LET r == KeyedDB_upsert(arr, Head(newChats))
         IN  IF r.threw # "" THEN r ELSE chatsUpsertHandler(r.array, Tail(newChats))

\* A mutant: the incoming unread count always overwrites.
chatsUpdateMutatorOverwrite(update, chat) == AssignChat(chat, update)

\* The mutator the chats.update handler hands to chats.update().
chatsUpdateMutator(update, chat) ==
    IF update.unreadCount # {} /\ Val(update.unreadCount) > 0
    THEN AssignChat(chat,
            [update EXCEPT !.unreadCount =
                {(IF chat.unreadCount = {} THEN 0 ELSE Val(chat.unreadCount))
                 + Val(update.unreadCount)}])
    ELSE AssignChat(chat, update)

\* A mutant: the fields are assigned to the stored chat where it stands.
chatsUpdateOneInPlace(arr, update) ==
    LET i == KeyedDB_get(arr, update.id)
    IN  IF i = 0 THEN [array |-> arr, threw |-> "", found |-> FALSE]
        ELSE [array |-> [arr EXCEPT ![i] = chatsUpdateMutator(update, arr[i])],
              threw |-> "", found |-> TRUE]

\* A mutant: an update for an id that is not stored creates the chat.
chatsUpdateOneCreating(arr, update) ==
    IF KeyedDB_get(arr, update.id) = 0
    THEN LET r == KeyedDB_upsert(arr, update)
         IN  [array |-> r.array, threw |-> r.threw, found |-> TRUE]
    ELSE KeyedDB_update(arr, update.id,
                        [chat \in Items(arr) |-> chatsUpdateMutator(update, chat)])

\* One turn of the loop of ev.on('chats.update').
chatsUpdateOne(arr, update) ==
    KeyedDB_update(arr, update.id, [chat \in Items(arr) |-> chatsUpdateMutator(update, chat)])

RECURSIVE chatsUpdateHandler(_, _)
chatsUpdateHandler(arr, updates) ==
    IF updates = <<>> THEN [array |-> arr, threw |-> ""]
    ELSE LET r == chatsUpdateOne(arr, Head(updates))
         IN  IF r.threw # "" THEN [array |-> r.array, threw |-> r.threw]
             ELSE chatsUpdateHandler(r.array, Tail(updates))

\* ev.on('chats.delete')
RECURSIVE chatsDeleteHandler(_, _)
chatsDeleteHandler(arr, deletions) ==
    IF deletions = <<>> THEN [array |-> arr, threw |-> ""]
    ELSE LET item == Head(deletions)
             r == IF KeyedDB_get(arr, item) # 0
                  THEN KeyedDB_deleteById(arr, item, TRUE)
                  ELSE [array |-> arr, threw |-> ""]
         IN  IF r.threw # "" THEN r ELSE chatsDeleteHandler(r.array, Tail(deletions))

\* chats.insertIfAbsent(...newChats)
RECURSIVE insertIfAbsentAll(_, _)
insertIfAbsentAll(arr, newChats) ==
    IF newChats = <<>> THEN [array |-> arr, threw |-> ""]
    ELSE LET r == KeyedDB_insertIfAbsent(arr, Head(newChats))
         IN  IF r.threw # "" THEN r ELSE insertIfAbsentAll(r.array, Tail(newChats))

\* The property key the messaging-history.set handler files a message under.
historyListKey(msg) == msg.remoteJid

\* The loop over newMessages of ev.on('messaging-history.set').
RECURSIVE historyMessages(_, _)
historyMessages(msgs, newMessages) ==
    IF newMessages = <<>> THEN msgs
    ELSE LET msg == Head(newMessages)
             jid == historyListKey(msg)
             withList == assertMessageList(msgs, jid)
         IN  historyMessages(
                 [withList EXCEPT ![jid] = OrderedDictionary_upsert(@, msg, "prepend")],
                 Tail(newMessages))

\* A mutant: the chats of the batch are upserted.
messagingHistorySetUpsert(arr, msgs, cts, newChats, newContacts, newMessages, isLatest) ==
    LET cleared == IF isLatest THEN <<>> ELSE arr
        clearedMsgs == IF isLatest THEN <<>> ELSE msgs
        inserted == chatsUpsertHandler(cleared, newChats)
        up == contactsUpsert(cts, newContacts)
        kept == IF isLatest THEN DOMAIN up.contacts \ up.oldContacts ELSE DOMAIN up.contacts
    IN  [array |-> inserted.array,
         messages |-> historyMessages(clearedMsgs, newMessages),
         contacts |-> [k \in kept |-> up.contacts[k]],
         threw |-> inserted.threw]

\* ev.on('messaging-history.set')
messagingHistorySet(arr, msgs, cts, newChats, newContacts, newMessages, isLatest) ==
    LET cleared == IF isLatest THEN <<>> ELSE arr
        clearedMsgs == IF isLatest THEN <<>> ELSE msgs
        inserted == insertIfAbsentAll(cleared, newChats)
        up == contactsUpsert(cts, newContacts)
        kept == IF isLatest THEN DOMAIN up.contacts \ up.oldContacts ELSE DOMAIN up.contacts
    IN  IF inserted.threw # ""
        THEN [array |-> inserted.array, messages |-> clearedMsgs, contacts |-> cts,
              threw |-> inserted.threw]
        ELSE [array |-> inserted.array,
              messages |-> historyMessages(clearedMsgs, newMessages),
              contacts |-> [k \in kept |-> up.contacts[k]],
              threw |-> ""]

\* The property key the messages.upsert handler files a message under:
\* jid = jidDecode(msg.key.remoteJid), an object, used as messages[jid].
upsertListKey(msg) == ToStr(jidDecode(msg.remoteJid))

\* !chats.get(jid), jid the decoded object.
notifyNeedsChat(arr, msg) == KeyedDB_get(arr, ObjId(jidDecode(msg.remoteJid))) = 0

\* The chat the notify branch emits: { id: jid, name: msg.key.remoteJid }.
placeholderChat(msg) ==
    Chat(ObjId(jidDecode(msg.remoteJid)), {}, {}, {}, {}, {msg.remoteJid})

\* ev.on('messages.upsert'); ev.emit('chats.upsert', ...) runs the
\* chats.upsert handler before emit returns.
RECURSIVE messagesUpsertLoop(_, _, _, _, _)
messagesUpsertLoop(arr, msgs, newMessages, type, out) ==
    IF newMessages = <<>>
    THEN [array |-> arr, messages |-> msgs, threw |-> "", emitted |-> out]
    ELSE LET msg == Head(newMessages)
             key == upsertListKey(msg)
             withList == assertMessageList(msgs, key)
             msgs2 == [withList EXCEPT ![key] = OrderedDictionary_upsert(@, msg, "append")]
             emits == type = "notify" /\ notifyNeedsChat(arr, msg)
             r == IF emits THEN chatsUpsertHandler(arr, <<placeholderChat(msg)>>)
                  ELSE [array |-> arr, threw |-> ""]
             out2 == IF emits THEN Append(out, placeholderChat(msg)) ELSE out
         IN  IF r.threw # ""
             THEN [array |-> r.array, messages |-> msgs2, threw |-> r.threw, emitted |-> out2]
             ELSE messagesUpsertLoop(r.array, msgs2, Tail(newMessages), type, out2)

messagesUpsertHandler(arr, msgs, newMessages, type) ==
    IF type \in {"append", "notify"}
    THEN messagesUpsertLoop(arr, msgs, newMessages, type, <<>>)
    ELSE [array |-> arr, messages |-> msgs, threw |-> "", emitted |-> <<>>]

(***************************************************************************)
(* ev.on('contacts.update'), an async function: it runs until an await,    *)
(* returns to the event source, and is resumed later.  Every dispatch       *)
(* starts a run of its own, also while earlier runs are suspended; cu       *)
(* holds one frame per run, in the order of dispatch (the runs that had     *)
(* ended are forgotten at the next dispatch).  A frame holds the run's      *)
(* position and locals across a suspension:                                *)
(*   pc       "idle", "hash" (awaiting the fingerprints, line 108) or      *)
(*            "pic" (awaiting socket.profilePictureUrl, line 116)          *)
(*   updates  the updates not yet done, the current one first              *)
(*   keys     Object.keys(contacts), taken before the await of line 108    *)
(*   contact  the local variable contact: the object it refers to          *)
(*   alias    contacts[contact.id] is still that very object               *)
(*   detachedAt  0 while alias holds; after it, the number of the event    *)
(*            that replaced or deleted contacts[contact.id]: two frames    *)
(*            with the same contact id and the same number refer to one    *)
(*            object                                                       *)
(*   snap     the collections as the handler left them when it suspended   *)
(*   batch, log, finishedAt: history, the event's updates, the updates     *)
(*            that were matched and assigned, and nev at the end           *)
(***************************************************************************)
NoContact == Contact(<<>>, {}, {})

Snapshot(arr, msgs, cts) == [chats |-> arr, messages |-> msgs, contacts |-> cts]

IdleFrame(batch, log, at) ==
    [pc |-> "idle", updates |-> <<>>, keys |-> {}, contact |-> NoContact,
     alias |-> FALSE, detachedAt |-> 0, snap |-> Snapshot(<<>>, <<>>, <<>>),
     batch |-> batch, log |-> log, finishedAt |-> at]

\* (await md5(Buffer.from(user + 'WA_ADD_NOTIF'))).toString('base64').slice(0, 3):
\* the digests of the users the model has.
md5Base64Prefix(user) ==
    CASE user = <<"1">> -> <<"O", "W", "+">>
      [] user = <<"2">> -> <<"g", "p", "v">>
      [] OTHER -> <<"?", "?", "?">>

\* The contact ids whose fingerprint is update.id; contactHashes.find takes
\* the first of them (the model's contacts have different fingerprints).
fingerprintMatches(keys, update) ==
    {k \in keys : md5Base64Prefix(jidDecode(k).user) = update.id}

\* The source of the Object.assign of line 124: the local contact itself.
assignSource(contact, update) == contact

\* Object.assign(contacts[contact.id], source): the source's own properties;
\* hasImg tells whether imgUrl is one of them (it is after an assignment to
\* it, whatever the value).
AssignContact(target, source, hasImg) ==
    [f \in DOMAIN target |->
        IF f = "id" THEN source.id
        ELSE IF f = "imgUrl" /\ hasImg THEN source.imgUrl
        ELSE IF source[f] = {} THEN target[f] ELSE source[f]]

\* The handler from the top of its loop (cuLoop), from the test of the found
\* contact (cuMatched) and from line 124 (cuAssign), up to its next await or
\* its end.  A result is [contacts, frame, threw].
RECURSIVE cuLoop(_, _, _, _, _)
RECURSIVE cuMatched(_, _, _, _, _, _)
RECURSIVE cuAssign(_, _, _, _, _, _, _)

cuAssign(cts, updates, contact, hasImg, sock, fr, at) ==
    IF contact.id \notin DOMAIN cts
    THEN [contacts |-> cts, frame |-> IdleFrame(fr.batch, fr.log, at), threw |-> "TypeError"]
    ELSE cuLoop(
            [cts EXCEPT ![contact.id] =
                AssignContact(@, assignSource(contact, Head(updates)), hasImg)],
            Tail(updates), sock,
            [fr EXCEPT !.log = Append(@, [update |-> Head(updates), id |-> contact.id])],
            at)

cuMatched(cts, updates, contact, sock, fr, at) ==
    LET update == Head(updates)
        cleared == [contact EXCEPT !.imgUrl = {}]
    IN  IF update.imgUrl = {"changed"} /\ sock
        THEN [contacts |-> cts,
              frame |-> [fr EXCEPT !.pc = "pic", !.updates = updates, !.keys = {},
                                   !.contact = contact, !.alias = TRUE,
                                   !.detachedAt = 0],
              threw |-> ""]
        ELSE IF update.imgUrl \in {{"changed"}, {"removed"}}
        THEN cuAssign([cts EXCEPT ![contact.id] = cleared], updates, cleared,
                      update.imgUrl = {"changed"}, sock, fr, at)
        ELSE cuAssign(cts, updates, contact, FALSE, sock, fr, at)

cuLoop(cts, updates, sock, fr, at) ==
    IF updates = <<>>
    THEN [contacts |-> cts, frame |-> IdleFrame(fr.batch, fr.log, at), threw |-> ""]
    ELSE IF Head(updates).id \in DOMAIN cts
    THEN cuMatched(cts, updates, cts[Head(updates).id], sock, fr, at)
    ELSE [contacts |-> cts,
          frame |-> [fr EXCEPT !.pc = "hash", !.updates = updates, !.keys = DOMAIN cts,
                               !.contact = NoContact, !.alias = FALSE,
                               !.detachedAt = 0],
          threw |-> ""]

\* The handler resumed after the await of line 108.
cuAfterHash(cts, sock, fr, at) ==
    LET found == fingerprintMatches(fr.keys, Head(fr.updates))
        first == CHOOSE k \in found : TRUE
    IN  IF found = {} \/ first \notin DOMAIN cts
        THEN [contacts |-> cts, frame |-> IdleFrame(fr.batch, fr.log, at), threw |-> ""]
        ELSE cuMatched(cts, fr.updates, cts[first], sock, fr, at)

\* The handler resumed after the await of line 116 with the url (or nothing).
\* While contacts[contact.id] is the object contact refers to, contact has
\* the fields other runs of the handler gave that object in the meantime.
cuAfterPic(cts, url, sock, fr, at) ==
    LET object == IF fr.alias THEN cts[fr.contact.id] ELSE fr.contact
        contact == [object EXCEPT !.imgUrl = url]
        live == IF fr.alias THEN [cts EXCEPT ![contact.id] = contact] ELSE cts
    IN  cuAssign(live, fr.updates, contact, TRUE, sock, fr, at)

\* What another handler's writes of contacts do to a suspended frame: an
\* object that was replaced or deleted is no longer the one in contacts, and
\* contact goes on referring to it, with the fields it had in contacts
\* (old) when event number at took its place.
Unalias(fr, replaced, old, cts, at) ==
    IF /\ fr.pc = "pic"
       /\ fr.alias
       /\ (fr.contact.id \in replaced \/ fr.contact.id \notin DOMAIN cts)
    THEN [fr EXCEPT !.alias = FALSE, !.contact = old[fr.contact.id],
                    !.detachedAt = at]
    ELSE fr

(***************************************************************************)
(* Labels: ObjectRepository (./object-repository), section 4.3 of the      *)
(* specification.                                                          *)
(***************************************************************************)
LabelCap == 20

Label(id, name, deleted) == [id |-> id, name |-> name, deleted |-> deleted]

ObjectRepository_count(repo) == Cardinality(DOMAIN repo)

ObjectRepository_upsertById(repo, id, item) ==
    IF ObjectRepository_count(repo) >= LabelCap /\ id \notin DOMAIN repo
    THEN repo
    ELSE [k \in DOMAIN repo \cup {id} |-> IF k = id THEN item ELSE repo[k]]

ObjectRepository_deleteById(repo, id) == [k \in DOMAIN repo \ {id} |-> repo[k]]

\* A mutant: the count is compared with <=.
labelsEditOffByOne(repo, label) ==
    IF label.deleted THEN ObjectRepository_deleteById(repo, label.id)
    ELSE IF ObjectRepository_count(repo) <= LabelCap
    THEN [k \in DOMAIN repo \cup {label.id} |-> IF k = label.id THEN label ELSE repo[k]]
    ELSE repo

\* ev.on('labels.edit')
labelsEdit(repo, label) ==
    IF label.deleted THEN ObjectRepository_deleteById(repo, label.id)
    ELSE IF ObjectRepository_count(repo) < LabelCap
    THEN ObjectRepository_upsertById(repo, label.id, label)
    ELSE repo

(***************************************************************************)
(* Label associations: a KeyedDB whose key and id are both the composite    *)
(* key of the row (line 41).                                               *)
(***************************************************************************)
\* LabelAssociationType (../Types/LabelAssociation).
LabelAssociationTypeChat == "label_jid"
LabelAssociationTypeMessage == "label_message"

LabelAssociation(type, chatId, messageId, labelId) ==
    [type |-> type, chatId |-> chatId, messageId |-> messageId, labelId |-> labelId]

\* waLabelAssociationKey.key
waLabelAssociationKey(la) ==
    IF la.type = LabelAssociationTypeChat
    THEN la.chatId \o la.labelId
    ELSE la.chatId \o Val(la.messageId) \o la.labelId

\* The index of the row whose key is the value's key, 0 if none.
LabelAssociations_get(arr, value) ==
    IF \E i \in 1..Len(arr) : waLabelAssociationKey(arr[i]) = waLabelAssociationKey(value)
    THEN CHOOSE i \in 1..Len(arr) :
             waLabelAssociationKey(arr[i]) = waLabelAssociationKey(value)
    ELSE 0

\* firstIndex(value) under waLabelAssociationKey.compare.
LabelAssociations_firstIndex(arr, value) ==
    1 + Cardinality({i \in 1..Len(arr) :
            localeCompare(waLabelAssociationKey(arr[i]), waLabelAssociationKey(value)) > 0})

\* delete(value): the row of the value's key is taken out.
LabelAssociations_delete(arr, value) ==
    LET i == LabelAssociations_get(arr, value)
    IN  IF i = 0 THEN arr ELSE RemoveAt(arr, i)

\* upsert(value): the row of the value's id (its key) is taken out, the value
\* is inserted at its key's place.
LabelAssociations_upsert(arr, value) ==
    LET without == LabelAssociations_delete(arr, value)
    IN  InsertAt(without, LabelAssociations_firstIndex(without, value), value)

\* ev.on('labels.association')
labelsAssociation(arr, type, association) ==
    IF type = "add" THEN LabelAssociations_upsert(arr, association)
    ELSE IF type = "remove" THEN LabelAssociations_delete(arr, association)
    ELSE arr

(***************************************************************************)
(* Connection state and presences: plain objects.                          *)
(***************************************************************************)
\* Object.assign(target, source) on plain objects (functions of the fields).
ObjectAssign(target, source) ==
    [f \in DOMAIN target \cup DOMAIN source |->
        IF f \in DOMAIN source THEN source[f] ELSE target[f]]

\* ev.on('connection.update'); update is {} when the payload is absent.
connectionUpdate(st, update) ==
    IF update = {} THEN st ELSE ObjectAssign(st, Val(update))

\* ev.on('presence.update')
presenceUpdate(pr, id, update) ==
    LET withId == IF id \in DOMAIN pr THEN pr ELSE pr @@ (id :> <<>>)
    IN  [withId EXCEPT ![id] = ObjectAssign(@, update)]

(***************************************************************************)
(* The events the model draws.                                             *)
(***************************************************************************)
J1 == <<"1", "@", "s">>
J2 == <<"2", "@", "s">>
\* "00000001" followed by J1: an id that ends with another chat's id.
JLong == <<"0", "0", "0", "0", "0", "0", "0", "1">> \o J1
N1 == <<"a">>
N2 == <<"b">>

Singles(S) == {<<a>> : a \in S}

ChatA == Chat(StrId(J1), {}, {}, {1}, {2}, {N1})
ChatAPinned == Chat(StrId(J1), {TRUE}, {}, {}, {}, {})
ChatB == Chat(StrId(J2), {}, {TRUE}, {2}, {}, {})
ChatBSame == Chat(StrId(J2), {}, {}, {1}, {}, {N2})

\* The last batch is a chat without timestamp whose key is the key of ChatA.
ChatBatches ==
    Singles({ChatA, ChatAPinned, ChatB, ChatBSame})
    \cup {<<ChatA, ChatB>>, <<ChatBSame, ChatA>>, <<ChatA, ChatAPinned>>}
    \cup {<<Chat(StrId(JLong), {}, {}, {}, {}, {})>>}

UpdUnreadPlus == Chat(StrId(J1), {}, {}, {}, {3}, {})
UpdUnreadZero == Chat(StrId(J1), {}, {}, {2}, {0}, {})
UpdUnreadNeg == Chat(StrId(J2), {TRUE}, {}, {}, {-1}, {})
UpdNoUnread == Chat(StrId(J2), {}, {FALSE}, {}, {}, {N1})

UpdateBatches ==
    Singles({UpdUnreadPlus, UpdUnreadZero, UpdUnreadNeg, UpdNoUnread})
    \cup {<<UpdUnreadPlus, UpdUnreadPlus>>, <<UpdNoUnread, UpdUnreadZero>>,
          <<UpdUnreadNeg, UpdUnreadPlus>>}

DeleteBatches == {<<StrId(J1)>>, <<StrId(J2)>>, <<StrId(J2), StrId(J1)>>}

Msg1 == Message(J1, "m1", "x")
Msg1Edited == Message(J1, "m1", "y")
Msg2 == Message(J2, "m2", "x")
Msg3 == Message(J1, "m3", "x")

MessageBatches == {<<Msg1>>, <<Msg2>>, <<Msg1, Msg2>>, <<Msg3, Msg1Edited>>}

UpsertTypes == {"append", "notify"}

ContactA == Contact(J1, {N1}, {})
ContactAFull == Contact(J1, {N2}, {"url"})
ContactB == Contact(J2, {}, {})

History(newChats, newContacts, newMessages) ==
    [chats |-> newChats, contacts |-> newContacts, messages |-> newMessages]

HistoryBatches ==
    {History(<<ChatB>>, <<>>, <<>>),
     History(<<ChatBSame, ChatA>>, <<ContactA>>, <<Msg1>>),
     History(<<>>, <<ContactB>>, <<Msg3, Msg2>>),
     History(<<ChatA, Chat(StrId(JLong), {}, {}, {}, {}, {})>>, <<>>, <<>>)}

(***************************************************************************)
(* The store after construction, and the events as actions.                *)
(***************************************************************************)
NoProbe == [done |-> FALSE, a |-> ChatA, b |-> ChatA, ka |-> <<>>, kb |-> <<>>]

Collections == [chats |-> chats, messages |-> messages, contacts |-> contacts,
                labels |-> labels, labelAssociations |-> labelAssociations,
                state |-> state, presences |-> presences]

\* const state = { connection: 'close' }
InitialState == [f \in {"connection"} |-> "close"]

InitStore(sock, repo, keyProbe) ==
    /\ chats = <<>>
    /\ messages = <<>>
    /\ contacts = <<>>
    /\ labels = repo
    /\ cu = <<>>
    /\ hasSocket = sock
    /\ last = [type |-> "none"]
    /\ pre = [chats |-> <<>>, messages |-> <<>>, contacts |-> <<>>, labels |-> repo,
              labelAssociations |-> <<>>, state |-> InitialState, presences |-> <<>>]
    /\ err = ""
    /\ emitted = <<>>
    /\ nev = 0
    /\ probe = keyProbe
    /\ labelAssociations = <<>>
    /\ state = InitialState
    /\ presences = <<>>
    /\ liveMessages = {}

\* The history of an event's application.
Applied(event) ==
    /\ last' = event
    /\ pre' = Collections
    /\ nev' = nev + 1

ContactIds(cs) == {cs[i].id : i \in 1..Len(cs)}

\* While runs of the contacts.update handler are suspended, their frames
\* keep the snapshots they took; an event's writes of contacts may end
\* their aliases.
FrameAfter(replaced, cts) ==
    [i \in 1..Len(cu) |-> Unalias(cu[i], replaced, contacts, cts, nev + 1)]

ChatsUpsert(newChats) ==
    LET r == chatsUpsertHandler(chats, newChats)
    IN  /\ chats' = r.array
        /\ err' = r.threw
        /\ emitted' = <<>>
        /\ Applied([type |-> "chats.upsert", chats |-> newChats])
        /\ UNCHANGED <<messages, contacts, labels, cu, hasSocket, probe, others, liveMessages>>

ChatsUpdate(updates) ==
    LET r == chatsUpdateHandler(chats, updates)
    IN  /\ chats' = r.array
        /\ err' = r.threw
        /\ emitted' = <<>>
        /\ Applied([type |-> "chats.update", updates |-> updates])
        /\ UNCHANGED <<messages, contacts, labels, cu, hasSocket, probe, others, liveMessages>>

ChatsDelete(deletions) ==
    LET r == chatsDeleteHandler(chats, deletions)
    IN  /\ chats' = r.array
        /\ err' = r.threw
        /\ emitted' = <<>>
        /\ Applied([type |-> "chats.delete", deletions |-> deletions])
        /\ UNCHANGED <<messages, contacts, labels, cu, hasSocket, probe, others, liveMessages>>

MessagingHistorySet(h, isLatest) ==
    LET r == messagingHistorySet(chats, messages, contacts,
                                 h.chats, h.contacts, h.messages, isLatest)
    IN  /\ chats' = r.array
        /\ messages' = r.messages
        /\ contacts' = r.contacts
        /\ cu' = FrameAfter(ContactIds(h.contacts), r.contacts)
        /\ err' = r.threw
        /\ emitted' = <<>>
        /\ Applied([type |-> "messaging-history.set", chats |-> h.chats,
                    contacts |-> h.contacts, messages |-> h.messages,
                    isLatest |-> isLatest])
        /\ liveMessages' = (IF isLatest THEN {} ELSE liveMessages)
        /\ UNCHANGED <<labels, hasSocket, probe, others>>

\* The messages of a messages.upsert that the store had from no earlier event.
FirstDelivered(msgs, newMessages, type) ==
    IF type \in {"append", "notify"}
    THEN {MessageRef(newMessages[i]) : i \in 1..Len(newMessages)}
         \ {MessageRef(m) : m \in AllMessages(msgs)}
    ELSE {}

MessagesUpsert(newMessages, type) ==
    LET r == messagesUpsertHandler(chats, messages, newMessages, type)
    IN  /\ chats' = r.array
        /\ messages' = r.messages
        /\ err' = r.threw
        /\ emitted' = r.emitted
        /\ Applied([type |-> "messages.upsert", messages |-> newMessages,
                    upsertType |-> type])
        /\ liveMessages' = liveMessages \cup FirstDelivered(messages, newMessages, type)
        /\ UNCHANGED <<contacts, labels, cu, hasSocket, probe, others>>

ContactsUpsert(newContacts) ==
    /\ contacts' = contactsUpsert(contacts, newContacts).contacts
    /\ cu' = FrameAfter(ContactIds(newContacts), contacts')
    /\ err' = ""
    /\ emitted' = <<>>
    /\ Applied([type |-> "contacts.upsert", contacts |-> newContacts])
    /\ UNCHANGED <<chats, messages, labels, hasSocket, probe, others, liveMessages>>

\* A handler run's end: the frame it leaves, with the snapshot of the
\* collections when it suspends.
Suspended(fr, cts) ==
    IF fr.pc = "idle" THEN fr
    ELSE [fr EXCEPT !.snap = Snapshot(chats, messages, cts)]

\* contacts.update is emitted: a new run of the handler goes to its first
\* await or its end, whatever earlier runs are suspended.
ContactsUpdate(updates) ==
    LET r == cuLoop(contacts, updates, hasSocket, IdleFrame(updates, <<>>, 0), nev + 1)
        pending == {i \in 1..Len(cu) : cu[i].pc # "idle"}
        kept == [n \in 1..Cardinality(pending) |->
                    cu[CHOOSE i \in pending : Cardinality({k \in pending : k <= i}) = n]]
    IN  /\ contacts' = r.contacts
        /\ cu' = Append(kept, Suspended(r.frame, r.contacts))
        /\ err' = r.threw
        /\ emitted' = <<>>
        /\ Applied([type |-> "contacts.update", updates |-> updates])
        /\ UNCHANGED <<chats, messages, labels, hasSocket, probe, others, liveMessages>>

\* The promise of line 108 of a suspended run is settled: the run goes on.
ContactsUpdateHashed ==
    \E i \in 1..Len(cu) :
        LET r == cuAfterHash(contacts, hasSocket, cu[i], nev)
        IN  /\ cu[i].pc = "hash"
            /\ contacts' = r.contacts
            /\ cu' = [cu EXCEPT ![i] = Suspended(r.frame, r.contacts)]
            /\ err' = r.threw
            /\ UNCHANGED <<chats, messages, labels, hasSocket, last, pre, emitted, nev,
                           probe, others, liveMessages>>

\* socket.profilePictureUrl of a suspended run resolves with a url or with
\* nothing.
ContactsUpdatePicture(url) ==
    \E i \in 1..Len(cu) :
        LET r == cuAfterPic(contacts, url, hasSocket, cu[i], nev)
            \* Line 116 writes imgUrl to the object contact refers to: the
            \* other runs that hold that object see it.
            same == {j \in 1..Len(cu) :
                        /\ j # i /\ cu[j].pc = "pic"
                        /\ ~cu[i].alias /\ ~cu[j].alias
                        /\ cu[j].contact.id = cu[i].contact.id
                        /\ cu[j].detachedAt = cu[i].detachedAt}
        IN  /\ cu[i].pc = "pic"
            /\ contacts' = r.contacts
            /\ cu' = [j \in 1..Len(cu) |->
                         IF j = i THEN Suspended(r.frame, r.contacts)
                         ELSE IF j \in same
                         THEN [cu[j] EXCEPT !.contact.imgUrl = url]
                         ELSE cu[j]]
            /\ err' = r.threw
            /\ UNCHANGED <<chats, messages, labels, hasSocket, last, pre, emitted, nev,
                           probe, others, liveMessages>>

LabelsEdit(label) ==
    /\ labels' = labelsEdit(labels, label)
    /\ err' = ""
    /\ emitted' = <<>>
    /\ Applied([type |-> "labels.edit", label |-> label])
    /\ UNCHANGED <<chats, messages, contacts, cu, hasSocket, probe, others, liveMessages>>

LabelsAssociation(type, association) ==
    /\ labelAssociations' = labelsAssociation(labelAssociations, type, association)
    /\ err' = ""
    /\ emitted' = <<>>
    /\ Applied([type |-> "labels.association", opType |-> type,
                association |-> association])
    /\ UNCHANGED <<chats, messages, contacts, labels, cu, hasSocket, probe, state,
                   presences, liveMessages>>

ConnectionUpdate(update) ==
    /\ state' = connectionUpdate(state, update)
    /\ err' = ""
    /\ emitted' = <<>>
    /\ Applied([type |-> "connection.update", update |-> update])
    /\ UNCHANGED <<chats, messages, contacts, labels, cu, hasSocket, probe,
                   labelAssociations, presences, liveMessages>>

PresenceUpdate(id, update) ==
    /\ presences' = presenceUpdate(presences, id, update)
    /\ err' = ""
    /\ emitted' = <<>>
    /\ Applied([type |-> "presence.update", id |-> id, presences |-> update])
    /\ UNCHANGED <<chats, messages, contacts, labels, cu, hasSocket, probe,
                   labelAssociations, state, liveMessages>>

(***************************************************************************)
(* Spec: the chat and message events on a store built without a socket.    *)
(***************************************************************************)
Init == InitStore(FALSE, <<>>, NoProbe)

OnChatsUpsert == nev < MaxEvents /\ \E b \in ChatBatches : ChatsUpsert(b)
OnChatsUpdate == nev < MaxEvents /\ \E b \in UpdateBatches : ChatsUpdate(b)
OnChatsDelete == nev < MaxEvents /\ \E b \in DeleteBatches : ChatsDelete(b)
OnMessagingHistorySet ==
    nev < MaxEvents /\ \E h \in HistoryBatches, isLatest \in BOOLEAN :
                            MessagingHistorySet(h, isLatest)
OnMessagesUpsert ==
    nev < MaxEvents /\ \E b \in MessageBatches, t \in UpsertTypes : MessagesUpsert(b, t)

Next ==
    \/ OnChatsUpsert
    \/ OnChatsUpdate
    \/ OnChatsDelete
    \/ OnMessagingHistorySet
    \/ OnMessagesUpsert

Spec == Init /\ [][Next]_vars

(***************************************************************************)
(* SpecContacts: the contact events; contacts.update suspends at its       *)
(* awaits, and the event source goes on dispatching while it does.         *)
(***************************************************************************)
ContactBatches ==
    {<<ContactA>>, <<ContactB>>, <<ContactAFull>>, <<ContactA, ContactB>>}

CUpdName == Contact(J1, {N2}, {})
CUpdPic == Contact(J1, {}, {"changed"})
CUpdRemoved == Contact(J2, {N1}, {"removed"})
\* Updates named by the fingerprints of the users "1" and "2".
CUpdFinger == Contact(md5Base64Prefix(<<"1">>), {N2}, {})
CUpdFingerPic == Contact(md5Base64Prefix(<<"2">>), {}, {"changed"})
CUpdUnknown == Contact(<<"x", "y", "z">>, {N1}, {})

ContactUpdateBatches ==
    Singles({CUpdName, CUpdPic, CUpdRemoved, CUpdFinger, CUpdFingerPic, CUpdUnknown})
    \cup {<<CUpdUnknown, CUpdName>>, <<CUpdName, CUpdRemoved>>, <<CUpdPic, CUpdName>>}

PictureUrls == {{}, {"url"}, {"url2"}}

\* History payloads of the contact events: one of contacts alone, one that
\* also brings a chat and a message.
ContactHistoryBatches ==
    {History(<<>>, <<ContactA>>, <<>>), History(<<ChatB>>, <<ContactB>>, <<Msg2>>)}

InitContacts == \E sock \in BOOLEAN : InitStore(sock, <<>>, NoProbe)

OnContactsUpsert ==
    nev < MaxContactEvents /\ \E b \in ContactBatches : ContactsUpsert(b)
OnContactsUpdate ==
    nev < MaxContactEvents /\ \E b \in ContactUpdateBatches : ContactsUpdate(b)
OnContactsUpdatePicture == \E url \in PictureUrls : ContactsUpdatePicture(url)
OnHistoryWithContacts ==
    nev < MaxContactEvents /\ \E h \in ContactHistoryBatches, isLatest \in BOOLEAN :
                                   MessagingHistorySet(h, isLatest)

NextContacts ==
    \/ OnContactsUpsert
    \/ OnContactsUpdate
    \/ ContactsUpdateHashed
    \/ OnContactsUpdatePicture
    \/ OnHistoryWithContacts

SpecContacts == InitContacts /\ [][NextContacts]_vars

(***************************************************************************)
(* SpecLabels: labels.edit events on a repository that is empty or holds   *)
(* the labels earlier labels.edit events put there.                        *)
(***************************************************************************)
LabelIds == 1..(LabelCap + ExtraLabelIds)
LabelNames == {"a", "b"}

LabelEvents ==
    {Label(id, name, FALSE) : id \in LabelIds, name \in LabelNames}
    \cup {Label(id, "a", TRUE) : id \in LabelIds}

\* The repository after labels.edit of the labels 1..n.
RECURSIVE LabelsAfter(_)
LabelsAfter(n) ==
    IF n = 0 THEN <<>> ELSE labelsEdit(LabelsAfter(n - 1), Label(n, "a", FALSE))

InitLabels == \E n \in {0, LabelCap - 1, LabelCap} : InitStore(FALSE, LabelsAfter(n), NoProbe)

OnLabelsEdit == nev < MaxLabelEvents /\ \E label \in LabelEvents : LabelsEdit(label)

NextLabels == OnLabelsEdit

SpecLabels == InitLabels /\ [][NextLabels]_vars

(***************************************************************************)
(* SpecKey: the chat key function on pairs of chats.                       *)
(***************************************************************************)
KeyChats ==
    {Chat(StrId(id), pinned, archived, ts, {}, {}) :
        id \in {J1, J2, JLong}, pinned \in {{}, {TRUE}}, archived \in {{}, {TRUE}},
        ts \in {{}, {0}, {1}, {26}}}

InitKey ==
    \E a \in KeyChats, b \in KeyChats :
        InitStore(FALSE, <<>>, [done |-> FALSE, a |-> a, b |-> b, ka |-> <<>>, kb |-> <<>>])

ComputeKeys ==
    /\ ~probe.done
    /\ probe' = [probe EXCEPT !.done = TRUE, !.ka = waChatKey(probe.a),
                              !.kb = waChatKey(probe.b)]
    /\ UNCHANGED <<chats, messages, contacts, labels, cu, hasSocket, last, pre, err,
                   emitted, nev, others, liveMessages>>

NextKey == ComputeKeys

SpecKey == InitKey /\ [][NextKey]_vars

(***************************************************************************)
(* SpecMisc: label association, connection and presence events, with the   *)
(* chat and message events that name unknown chats or unknown types.       *)
(***************************************************************************)
MaxMiscEvents == 3

\* Rows of label ids "1", "12", "2" and message ids "a", "a1".
ChatRow == LabelAssociation(LabelAssociationTypeChat, J1, {}, <<"1">>)
ChatRowOther == LabelAssociation(LabelAssociationTypeChat, J2, {}, <<"1">>)
MessageRow == LabelAssociation(LabelAssociationTypeMessage, J1, {<<"a">>}, <<"1", "2">>)
MessageRowLonger ==
    LabelAssociation(LabelAssociationTypeMessage, J1, {<<"a", "1">>}, <<"2">>)

AssociationRows == {ChatRow, ChatRowOther, MessageRow, MessageRowLonger}
AssociationTypes == {"add", "remove", "replace"}

ConnectionUpdates ==
    {{}, {[f \in {"connection"} |-> "open"]}, {[f \in {"qr"} |-> "code"]}}

PresenceUpdates ==
    {[p \in {"p1"} |-> "available"], [p \in {"p1", "p2"} |-> "unavailable"]}

MiscUpdateBatches == {<<UpdUnreadPlus>>, <<UpdNoUnread>>, <<UpdNoUnread, UpdUnreadZero>>}
MiscDeleteBatches == {<<StrId(J2)>>, <<StrId(J2), StrId(J1)>>}

InitMisc == InitStore(FALSE, <<>>, NoProbe)

OnLabelsAssociation ==
    nev < MaxMiscEvents /\ \E t \in AssociationTypes, a \in AssociationRows :
                               LabelsAssociation(t, a)
OnConnectionUpdate ==
    nev < MaxMiscEvents /\ \E u \in ConnectionUpdates : ConnectionUpdate(u)
OnPresenceUpdate ==
    nev < MaxMiscEvents /\ \E id \in {J1, J2}, u \in PresenceUpdates : PresenceUpdate(id, u)
MiscChatsUpsert == nev < MaxMiscEvents /\ ChatsUpsert(<<ChatA>>)
MiscChatsUpdate == nev < MaxMiscEvents /\ \E b \in MiscUpdateBatches : ChatsUpdate(b)
MiscChatsDelete == nev < MaxMiscEvents /\ \E b \in MiscDeleteBatches : ChatsDelete(b)
MiscMessagesUpsert ==
    nev < MaxMiscEvents /\ \E t \in UpsertTypes \cup {"prepend"} :
                               MessagesUpsert(<<Msg1>>, t)

NextMisc ==
    \/ OnLabelsAssociation
    \/ OnConnectionUpdate
    \/ OnPresenceUpdate
    \/ MiscChatsUpsert
    \/ MiscChatsUpdate
    \/ MiscChatsDelete
    \/ MiscMessagesUpsert

SpecMisc == InitMisc /\ [][NextMisc]_vars

(***************************************************************************)
(* The properties.                                                         *)
(***************************************************************************)
Ids(arr) == {arr[i].id : i \in 1..Len(arr)}

AfterEvent(type) == last.type = type

\* C1: iterating the chat collection yields the chats in strictly descending
\* order of the sort key computed from each chat's current fields, after any
\* sequence of chat, history and message events.
C1_ChatsSortedByCurrentKey ==
    \A i \in 1..(Len(chats) - 1) :
        localeCompare(waChatKey(chats[i]), waChatKey(chats[i + 1])) > 0

\* C1's case: a chats.update has changed a chat's key and its place among
\* the other chats.
C1_Witness ==
    /\ AfterEvent("chats.update")
    /\ Len(chats) = Len(pre.chats)
    /\ \E i \in 1..Len(chats), j \in 1..Len(chats) :
          /\ i # j
          /\ pre.chats[i].id = chats[j].id
          /\ waChatKey(pre.chats[i]) # waChatKey(chats[j])

\* C2: two chats with different ids have different sort keys, whatever their
\* pinned, archived and conversationTimestamp.
C2_KeysDifferWhenIdsDiffer ==
    (probe.done /\ probe.a.id # probe.b.id) => probe.ka # probe.kb

\* C3: while the contacts.update handler is suspended no other event is
\* applied to the collections: they are as the handler left them.
C3_NoEventWhileSuspended ==
    \A i \in 1..Len(cu) :
        cu[i].pc # "idle" => Snapshot(chats, messages, contacts) = cu[i].snap

\* C4: at most 20 labels are stored, and a labels.edit of a new, non-deleted
\* label arriving when 20 are stored leaves every stored label as it was.
C4_LabelCapKept ==
    /\ Cardinality(DOMAIN labels) <= 20
    /\ ( /\ AfterEvent("labels.edit")
         /\ ~last.label.deleted
         /\ Cardinality(DOMAIN pre.labels) = 20
         /\ last.label.id \notin DOMAIN pre.labels )
       => labels = pre.labels

\* C4's case: a new label has arrived at a full repository.
C4_Witness ==
    /\ AfterEvent("labels.edit")
    /\ ~last.label.deleted
    /\ Cardinality(DOMAIN pre.labels) = 20
    /\ last.label.id \notin DOMAIN pre.labels
    /\ Cardinality(DOMAIN labels) = 20

\* C5: a labels.edit of a non-deleted label whose id is already stored
\* replaces the stored label, also when 20 labels are stored.
C5_StoredIdIsReplaced ==
    ( /\ AfterEvent("labels.edit")
      /\ ~last.label.deleted
      /\ last.label.id \in DOMAIN pre.labels )
    => ( /\ last.label.id \in DOMAIN labels
         /\ labels[last.label.id] = last.label )

\* The run of the last contacts.update has ended, no other run of the
\* handler was suspended when it was dispatched, and no event was applied
\* since: cu holds its frame alone.
RanAlone ==
    /\ AfterEvent("contacts.update")
    /\ Len(cu) = 1
    /\ cu[1].pc = "idle"

\* C6: when the contacts.update handler has run to its end, each matched
\* contact holds the name its update carried, and no other contact was
\* changed or created.
C6_UpdateFieldsMerged ==
    ( /\ RanAlone
      /\ err = ""
      /\ Len(cu[1].batch) = 1
      /\ Len(cu[1].log) = 1 )
    => ( /\ cu[1].log[1].update.name # {}
            => contacts[cu[1].log[1].id].name = cu[1].log[1].update.name
         /\ DOMAIN contacts = DOMAIN pre.contacts
         /\ \A k \in DOMAIN contacts \ {cu[1].log[1].id} : contacts[k] = pre.contacts[k] )

\* C7: after a messaging-history.set with isLatest the chats are exactly the
\* chats of the event's batch, and the only messages are the event's.
C7_LatestHistoryReplaces ==
    (AfterEvent("messaging-history.set") /\ last.isLatest)
    => ( /\ Items(chats) = Items(last.chats)
         /\ AllMessages(messages) = ListItems(last.messages)
         /\ \A k \in DOMAIN messages : messages[k] # <<>> )

\* C8: after a messages.upsert of type append or notify every message of the
\* event is in the list stored under its own chat id (the key
\* messaging-history.set uses), and no list holds messages of two chats.
C8_MessagesUnderOwnChatId ==
    (AfterEvent("messages.upsert") /\ last.upsertType \in {"append", "notify"})
    => ( /\ \A i \in 1..Len(last.messages) :
               /\ historyListKey(last.messages[i]) \in DOMAIN messages
               /\ \E m \in ListItems(messages[historyListKey(last.messages[i])]) :
                     m.id = last.messages[i].id
         /\ \A k \in DOMAIN messages :
               \A m1 \in ListItems(messages[k]), m2 \in ListItems(messages[k]) :
                   m1.remoteJid = m2.remoteJid )

\* C9: after a notify for a chat id that is not known the collection holds a
\* chat with that id; a notify for a known chat id adds no chat and leaves
\* that chat as it was; an append adds no chat.
C9_NotifyPlaceholder ==
    AfterEvent("messages.upsert")
    => ( /\ last.upsertType = "notify"
            => \A i \in 1..Len(last.messages) :
                  LET id == StrId(last.messages[i].remoteJid)
                  IN  /\ id \in Ids(chats)
                      /\ id \in Ids(pre.chats)
                           => /\ Len(chats) = Len(pre.chats)
                              /\ Items(pre.chats) \subseteq Items(chats)
         /\ last.upsertType = "append" => chats = pre.chats )

\* The chat an update leaves, as the claim words it.
C10_Expected(chat, update) ==
    [f \in DOMAIN chat |->
        IF f = "id" THEN chat.id
        ELSE IF f = "unreadCount"
        THEN IF update.unreadCount = {} THEN chat.unreadCount
             ELSE IF Val(update.unreadCount) > 0
             THEN {(IF chat.unreadCount = {} THEN 0 ELSE Val(chat.unreadCount))
                   + Val(update.unreadCount)}
             ELSE update.unreadCount
        ELSE IF update[f] = {} THEN chat[f] ELSE update[f]]

RECURSIVE C10_ExpectedAfter(_, _)
C10_ExpectedAfter(chat, updates) ==
    IF updates = <<>> THEN chat
    ELSE C10_ExpectedAfter(
            IF Head(updates).id = chat.id THEN C10_Expected(chat, Head(updates)) ELSE chat,
            Tail(updates))

\* C10: a chats.update entry for an existing chat adds a positive incoming
\* unreadCount to the chat's, writes a non-positive one as it is, leaves the
\* count alone when it carries none, and merges its other fields.
C10_UnreadCountRule ==
    AfterEvent("chats.update")
    => /\ Len(chats) = Len(pre.chats)
       /\ \A c \in Items(pre.chats) : C10_ExpectedAfter(c, last.updates) \in Items(chats)

\* C10's case: a positive count was added to a chat's count, and a chat's
\* count was overwritten by a non-positive one.
C10_Witness ==
    /\ AfterEvent("chats.update")
    /\ \E c \in Items(pre.chats), d \in Items(chats) :
          /\ c.id = d.id
          /\ c.unreadCount = {2}
          /\ d.unreadCount = {5}
    /\ \E c \in Items(pre.chats), d \in Items(chats) :
          /\ c.id = d.id
          /\ c.unreadCount = {}
          /\ d.unreadCount = {-1}

\* The events that deliver messages into lists that are kept.
DeliversMessages ==
    \/ AfterEvent("messages.upsert") /\ last.upsertType \in {"append", "notify"}
    \/ AfterEvent("messaging-history.set") /\ ~last.isLatest

\* The entries of old are in new, in the same order and next to each other.
SameOrder(old, new) ==
    /\ Len(new) >= Len(old)
    /\ \E d \in 0..(Len(new) - Len(old)) :
          \A i \in 1..Len(old) : waMessageID(new[d + i]) = waMessageID(old[i])

\* The message of the event that is the last one named ref.
LastDelivered(ref) ==
    last.messages[CHOOSE n \in 1..Len(last.messages) :
                     /\ MessageRef(last.messages[n]) = ref
                     /\ \A k \in (n + 1)..Len(last.messages) :
                           MessageRef(last.messages[k]) # ref]

\* C11: no list holds two entries with one message id, and when an event
\* (messages.upsert or messaging-history.set) delivers a message whose id is
\* already in its chat's list, that list keeps the order of its entries and
\* the entry of that id holds the delivered content.
C11_RepeatKeepsPosition ==
    /\ \A k \in DOMAIN messages :
          \A i \in 1..Len(messages[k]), j \in 1..Len(messages[k]) :
              i # j => waMessageID(messages[k][i]) # waMessageID(messages[k][j])
    /\ DeliversMessages
       => \A n \in 1..Len(last.messages) :
             LET m == last.messages[n]
                 c == historyListKey(m)
             IN  ( /\ c \in DOMAIN pre.messages
                   /\ \E old \in ListItems(pre.messages[c]) : waMessageID(old) = waMessageID(m) )
                 => /\ c \in DOMAIN messages
                    /\ SameOrder(pre.messages[c], messages[c])
                    /\ LastDelivered(MessageRef(m)) \in ListItems(messages[c])

\* ref names an entry of list before the entry other names.
Precedes(list, ref, other) ==
    \E i \in 1..Len(list), j \in 1..Len(list) :
        /\ i < j
        /\ MessageRef(list[i]) = ref
        /\ MessageRef(list[j]) = other

\* C12: after a messaging-history.set without isLatest, every message of the
\* event that was not known before stands, in its chat's list, before every
\* message of that chat that earlier messages.upsert events delivered.
C12_HistoryBeforeLive ==
    (AfterEvent("messaging-history.set") /\ ~last.isLatest)
    => \A n \in 1..Len(last.messages) :
          LET h == last.messages[n]
              c == historyListKey(h)
          IN  MessageRef(h) \notin {MessageRef(m) : m \in AllMessages(pre.messages)}
              => \A l \in liveMessages :
                    l.remoteJid = c
                    => /\ c \in DOMAIN messages
                       /\ Precedes(messages[c], MessageRef(h), l)

\* C13: no handler run ends with an exception (for the async contacts.update
\* handler: with a rejected promise), whatever events are dispatched while
\* the contacts.update handler is suspended.
C13_NoHandlerThrows == err = ""

\* The chats of a batch that no later chat of the batch replaces.
LastOfEachId(batch) ==
    {batch[n] : n \in {k \in 1..Len(batch) :
                          \A j \in (k + 1)..Len(batch) : batch[j].id # batch[k].id}}

\* C14: after a chats.upsert, the same chats.upsert again leaves the chat
\* collection as it is (same chats, same fields, same order), and each chat
\* of the event is stored exactly as the event carried it, whatever was
\* stored under its id before; the other chats are as they were.
C14_UpsertIdempotentReplaces ==
    AfterEvent("chats.upsert")
    => /\ chatsUpsertHandler(chats, last.chats) = [array |-> chats, threw |-> ""]
       /\ LastOfEachId(last.chats) \subseteq Items(chats)
       /\ Ids(chats) = Ids(pre.chats) \cup Ids(last.chats)
       /\ Len(chats) = Cardinality(Ids(chats))
       /\ \A c \in Items(pre.chats) : c.id \notin Ids(last.chats) => c \in Items(chats)

\* C15: a messaging-history.set without isLatest leaves every chat that was
\* stored as it was, and the chats it adds are chats of its batch whose id
\* was not stored.
C15_HistoryKeepsKnownChats ==
    (AfterEvent("messaging-history.set") /\ ~last.isLatest)
    => /\ Items(pre.chats) \subseteq Items(chats)
       /\ \A c \in Items(chats) \ Items(pre.chats) :
             c \in Items(last.chats) /\ c.id \notin Ids(pre.chats)
       /\ Len(chats) = Cardinality(Ids(chats))

\* C15's case: the batch held a chat whose id was stored with other fields,
\* and a chat whose id was not stored, which was added.
C15_Witness ==
    /\ AfterEvent("messaging-history.set")
    /\ ~last.isLatest
    /\ \E c \in Items(pre.chats), d \in Items(last.chats) : c.id = d.id /\ c # d
    /\ \E d \in Items(last.chats) : d.id \notin Ids(pre.chats) /\ d \in Items(chats)

ContactFields == {"name", "imgUrl"}

\* The value of field f the batch carries last for contact id k ({} if none).
CarriedLast(batch, k, f) ==
    LET carrying == {n \in 1..Len(batch) : batch[n].id = k /\ batch[n][f] # {}}
    IN  IF carrying = {} THEN {}
        ELSE batch[CHOOSE n \in carrying : \A j \in carrying : j <= n][f]

\* The contacts of an event's batch are merged field by field into old.
MergedInto(old, new, batch) ==
    \A k \in ContactIds(batch) :
        /\ k \in DOMAIN new
        /\ \A f \in ContactFields :
              new[k][f] = IF CarriedLast(batch, k, f) # {} THEN CarriedLast(batch, k, f)
                          ELSE IF k \in DOMAIN old THEN old[k][f]
                          ELSE {}

\* No contact of old and no field of a contact of old is missing in new.
NothingRemoved(old, new) ==
    \A k \in DOMAIN old :
        /\ k \in DOMAIN new
        /\ \A f \in ContactFields : old[k][f] # {} => new[k][f] # {}

\* What C16 says of one step of the store.
C16_Step ==
    (nev' = nev + 1 /\ last'.type \in {"messaging-history.set", "contacts.upsert"})
    => /\ MergedInto(contacts, contacts', last'.contacts)
       /\ IF last'.type = "messaging-history.set" /\ last'.isLatest
          THEN DOMAIN contacts' = ContactIds(last'.contacts)
          ELSE NothingRemoved(contacts, contacts')

\* C16: a messaging-history.set with isLatest leaves exactly the contacts of
\* its batch, each with its earlier fields merged with the batch's; without
\* isLatest, and for contacts.upsert, the batch is merged the same way and no
\* contact and no field of a contact is removed.
C16_ContactsMerged == [][C16_Step]_vars

\* C16's case: an isLatest messaging-history.set has deleted a contact its
\* batch does not name and merged into a contact it names, which keeps a
\* field the batch does not carry.
C16_Witness ==
    /\ AfterEvent("messaging-history.set")
    /\ last.isLatest
    /\ DOMAIN pre.contacts \ ContactIds(last.contacts) # {}
    /\ DOMAIN contacts = ContactIds(last.contacts)
    /\ \E k \in DOMAIN contacts \cap DOMAIN pre.contacts :
          /\ pre.contacts[k].imgUrl # {}
          /\ CarriedLast(last.contacts, k, "imgUrl") = {}
          /\ contacts[k].imgUrl = pre.contacts[k].imgUrl
          /\ contacts[k].name # pre.contacts[k].name

\* The update names a contact of cts, by its id or by its fingerprint.
MatchesKnown(cts, update) ==
    update.id \in DOMAIN cts \/ fingerprintMatches(DOMAIN cts, update) # {}

\* C17: when the contacts.update handler has run to its end with no other
\* event in between, every update of the batch that names a known contact
\* has been applied to it (the handler reached its merge step for it),
\* also after an update that names none; and a batch whose updates name no
\* known contact changes nothing.
C17_UnmatchedDroppedAlone ==
    (RanAlone /\ err = "")
    => /\ \A i \in 1..Len(cu[1].batch) :
             MatchesKnown(pre.contacts, cu[1].batch[i])
             => \E j \in 1..Len(cu[1].log) : cu[1].log[j].update = cu[1].batch[i]
       /\ (\A i \in 1..Len(cu[1].batch) : ~MatchesKnown(pre.contacts, cu[1].batch[i]))
          => contacts = pre.contacts

\* The ids an event's batch names.
Named(batch) == {batch[i].id : i \in 1..Len(batch)}
Deleted(batch) == {batch[i] : i \in 1..Len(batch)}

\* C18: a dropped event changes no collection.  A chats.update creates no
\* chat, leaves the chats it does not name alone, and changes nothing when
\* it names unknown ids only; a chats.delete removes the stored ids it names
\* and nothing else; a messages.upsert of a type other than append or
\* notify, a labels.association of a type other than add or remove and a
\* connection.update without payload change nothing.  None of them throws.
C18_DroppedEventsChangeNothing ==
    /\ AfterEvent("chats.update")
       => /\ Ids(chats) = Ids(pre.chats)
          /\ \A c \in Items(pre.chats) : c.id \notin Named(last.updates) => c \in Items(chats)
          /\ Named(last.updates) \cap Ids(pre.chats) = {} => Collections = pre /\ err = ""
    /\ AfterEvent("chats.delete")
       => /\ Items(chats) = {c \in Items(pre.chats) : c.id \notin Deleted(last.deletions)}
          /\ Deleted(last.deletions) \cap Ids(pre.chats) = {} => Collections = pre /\ err = ""
    /\ (AfterEvent("messages.upsert") /\ last.upsertType \notin {"append", "notify"})
       => Collections = pre /\ err = "" /\ emitted = <<>>
    /\ (AfterEvent("labels.association") /\ last.opType \notin {"add", "remove"})
       => Collections = pre /\ err = ""
    /\ (AfterEvent("connection.update") /\ last.update = {})
       => Collections = pre /\ err = ""

\* C18's case: a chats.update naming only an id that is not stored has been
\* applied to a store that holds a chat and a changed connection state or a
\* label association.
C18_Witness ==
    /\ AfterEvent("chats.update")
    /\ Named(last.updates) \cap Ids(pre.chats) = {}
    /\ pre.chats # <<>>
    /\ pre.labelAssociations # <<>> \/ pre.state # InitialState
    /\ Collections = pre

\* C19: a labels.association add stores its row beside every other row (it
\* replaces no row that differs from it in type, chatId, labelId or
\* messageId), and a remove takes out exactly its row, or nothing when that
\* row is not stored.
C19_RowsDistinct ==
    AfterEvent("labels.association")
    => /\ last.opType = "add"
          => Items(labelAssociations)
                = Items(pre.labelAssociations) \cup {last.association}
       /\ last.opType = "remove"
          => Items(labelAssociations)
                = Items(pre.labelAssociations) \ {last.association}

\* C20: handling a messages.upsert dispatches no event through the event
\* source: the store emits no chats.upsert while it handles the event.
C20_NoPublicDispatch == AfterEvent("messages.upsert") => emitted = <<>>

====
